---- MODULE Spec2Model ----
(***************************************************************************)
(* A model of smallnest/goreq (goreq.go): the GoReq request builder, its   *)
(* setters and the terminal call End / EndBytes.                           *)
(*                                                                         *)
(* Strings that the code parses (JSON objects, form-encoded strings) are   *)
(* modelled by their syntax: a Text is a format tag and the sequence of    *)
(* key/value members in textual order, repeated keys included.  Decoding   *)
(* folds the members into a map, encoding lists a map in sorted key order. *)
(***************************************************************************)
EXTENDS Integers, Sequences, FiniteSets, Bags, TLC

VARIABLES
    gr,           \* the GoReq object: one field per field of the struct
    clients,      \* the http.Client objects that exist, by reference
    op,           \* the operation that ran last
    arg,          \* the argument it was given
    wasFresh,     \* the builder was as constructed, method, URL and client
                  \* apart, when that operation began
    appended,     \* a setter of the current chain has appended an error
    added,        \* the bag of pairs that Query and Param calls have added
    req,          \* the outbound request the last terminal call built
    ret,          \* what the last terminal call returned
    doCalls,      \* gr.Client.Do invocations made by the last terminal call
    cbCalls,      \* callback invocations made by the last terminal call
    via,          \* the client the last terminal call executed through, with
                  \* the transport and redirect check that client then had
    lastProxy,    \* the URL of the last Proxy call whose URL parsed
    lastPolicy,   \* the policy of the last RedirectPolicy call
    workers,      \* builders of their own that goroutines run side by side
    logged,       \* what the last terminal call wrote to the logger
    stream,       \* the bytes left in the buffer behind the Body of the
                  \* response that the last terminal call returned
    readBack,     \* what reading that Body gave the caller and the callback
    typeHist      \* the Content-Type that the calls made so far stand for

vars == <<gr, clients, op, arg, wasFresh, appended, added, req, ret, doCalls,
          cbCalls, via, lastProxy, lastPolicy, workers, logged, stream,
          readBack, typeHist>>

----------------------------------------------------------------------------
(* Bounds *)

MaxArr == 3        \* longest []string kept under one key of Data
MaxVals == 2       \* most values kept under one key of QueryData
MaxErrs == 2       \* longest error list
MaxCookies == 1    \* most cookies added
MaxDefault == 2    \* most default clients ever created

----------------------------------------------------------------------------
(* Constants of the program *)

POST == "POST"
GET == "GET"
HEAD == "HEAD"
PUT == "PUT"
DELETE == "DELETE"
PATCH == "PATCH"

ShortContentTypes ==
    [html |-> "text/html", text |-> "text/plain", json |-> "application/json",
     xml |-> "application/xml",
     urlencoded |-> "application/x-www-form-urlencoded",
     form |-> "application/x-www-form-urlencoded",
     formdata |-> "application/x-www-form-urlencoded",
     stream |-> "application/octet-stream"]

\* the alias spelled "form-data" in the table is the record field formdata
AliasField(typeStr) ==
    IF typeStr = "form-data" THEN "formdata"
    ELSE IF typeStr = "formdata" THEN "" ELSE typeStr

----------------------------------------------------------------------------
(* Values, maps and texts *)

\* the keys used, in byte order; the last one is a whole JSON text taken as
\* a key, which is what url.ParseQuery makes of a text without = and &
KeySeq == <<"a", "b", "{a:1}">>
Keys == {KeySeq[i] : i \in DOMAIN KeySeq}

EmptyMap == [k \in {} |-> 0]

\* A value held in Data: string, json.Number, []string or []interface{}
StrVal(s) == [t |-> "string", v |-> <<s>>]
NumVal(s) == [t |-> "number", v |-> <<s>>]
StrsVal(a) == [t |-> "strings", v |-> a]
ListVal(a) == [t |-> "list", v |-> a]
\* A JSON array as written in a text
ArrVal(a) == [t |-> "array", v |-> a]
\* A form segment whose escape is invalid ("%zz")
BadVal == [t |-> "bad", v |-> <<"%zz">>]

\* A string: "json" is the text of a JSON object, "form" any other text, read
\* as segments separated by &
Text(f, p) == [fmt |-> f, pairs |-> p]
EmptyString == Text("form", <<>>)

\* the members of a map in sorted key order (json.Marshal, url.Values.Encode)
SortedKeys(m) == SelectSeq(KeySeq, LAMBDA k : k \in DOMAIN m)

RECURSIVE Concat(_)
Concat(ss) == IF ss = <<>> THEN <<>> ELSE Head(ss) \o Concat(Tail(ss))

\* the indices of the members of a text that carry key k
Occ(pairs, k) == {i \in DOMAIN pairs : pairs[i][1] = k}
Max(S) == CHOOSE x \in S : \A y \in S : y <= x
Min(S) == CHOOSE x \in S : \A y \in S : x <= y
TextKeys(pairs) == {pairs[i][1] : i \in DOMAIN pairs}


----------------------------------------------------------------------------
(* encoding/json and net/url, as far as the code uses them *)

\* the decoder without UseNumber: a number becomes a float64
FromJsonFloat(x) ==
    IF x.t = "array" THEN ListVal(x.v)
    ELSE IF x.t = "number" THEN NumVal("1e+00") ELSE x

\* what the decoder with UseNumber stores for a JSON value: an array decodes
\* to []interface{}, a number keeps its literal text
FromJson(x) == IF x.t = "array" THEN ListVal(x.v) ELSE x

\* json.Unmarshal / Decoder.Decode of a JSON object text into
\* map[string]interface{}: of a repeated key the last member wins
JsonDecode(text) ==
    [k \in TextKeys(text.pairs) |->
        FromJson(text.pairs[Max(Occ(text.pairs, k))][2])]

\* the decode of SendMapString / SendStruct succeeds on a JSON object text
DecodesAsMap(text) == text.fmt = "json"

\* json.Unmarshal into map[string]string succeeds only when every member of
\* the object is a string
DecodesAsStringMap(text) ==
    /\ text.fmt = "json"
    /\ \A i \in DOMAIN text.pairs : text.pairs[i][2].t = "string"

\* json.Marshal of a value of Data
ToJson(x) == IF x.t \in {"strings", "list"} THEN ArrVal(x.v) ELSE x

\* json.Marshal(gr.Data): the members in sorted key order
JsonMarshal(m) ==
    LET ks == SortedKeys(m)
    IN  Text("json", [i \in DOMAIN ks |-> <<ks[i], ToJson(m[ks[i]])>>])

\* the segments of a text as url.ParseQuery sees them: a JSON text has no
\* & and no =, so it is one segment whose key is the whole text
Segments(text) ==
    IF text.fmt = "json" THEN << <<KeySeq[Len(KeySeq)], StrVal("")>> >>
    ELSE text.pairs

\* url.ParseQuery reports an error when a segment has an invalid escape
ParseQueryOk(text) ==
    \A i \in DOMAIN Segments(text) : Segments(text)[i][2].t # "bad"

\* url.ParseQuery: key -> the values of the well-formed segments, in order
ParseQuery(text) ==
    LET segs == SelectSeq(Segments(text), LAMBDA sg : sg[2].t # "bad")
    IN  [k \in TextKeys(segs) |->
            LET mine == SelectSeq(segs, LAMBDA sg : sg[1] = k)
            IN  [i \in DOMAIN mine |-> mine[i][2].v[1]]]

\* url.Values.Get: the first value of the key
ValuesGet(values, k) ==
    IF k \in DOMAIN values /\ values[k] # <<>> THEN values[k][1] ELSE ""

\* url.Values.Set in the place of Add
AddReplaces(values, k, v) ==
    [x \in DOMAIN values \cup {k} |-> IF x = k THEN <<v>> ELSE values[x]]

\* url.Values.Add
Add(values, k, v) ==
    [x \in DOMAIN values \cup {k} |->
        IF x = k THEN (IF k \in DOMAIN values THEN values[k] ELSE <<>>) \o <<v>>
        ELSE values[x]]

\* url.Values.Encode: sorted by key, the values of a key in their order
Encode(values) ==
    LET ks == SortedKeys(values)
    IN  Text("form",
             Concat([i \in DOMAIN ks |->
                 [j \in DOMAIN values[ks[i]] |->
                     <<ks[i], StrVal(values[ks[i]][j])>>]]))

\* the values changeMapToURLValues adds for one entry of Data
URLValuesOf(x) ==
    IF x.t \in {"string", "strings", "number"} THEN x.v ELSE <<>>

changeMapToURLValues(data) ==
    LET ks == {k \in DOMAIN data : URLValuesOf(data[k]) # <<>>}
    IN  [k \in ks |-> URLValuesOf(data[k])]

\* a Go map read with a missing key gives the zero value
HeaderGet(h, k) == IF k \in DOMAIN h THEN h[k] ELSE ""
HeaderSet(h, k, v) == [x \in DOMAIN h \cup {k} |-> IF x = k THEN v ELSE h[x]]


----------------------------------------------------------------------------
(* The objects *)

\* references to http.Client objects
NilClient == <<"nil", 0>>
UserClient(n) == <<"user", n>>
DefaultClient(n) == <<"default", n>>

\* &http.Client{} as a caller makes it, and what setDefaultClient makes
UserClientObject == [CheckRedirect |-> "nil", Transport |-> "nil", Jar |-> FALSE]
DefaultClientObject == [CheckRedirect |-> "nil", Transport |-> "nil", Jar |-> TRUE]

NoAuth == [Username |-> "", Password |-> ""]
NewTransport == [Proxy |-> "nil", Dial |-> "nil", TLSClientConfig |-> "nil"]

\* a target URL: whether url.Parse accepts it, whether it has a scheme the
\* transport can serve, and the query string embedded in it
TargetUrl(n, p, sc, q) == [name |-> n, parses |-> p, scheme |-> sc, query |-> q]
EmptyUrl == TargetUrl("", TRUE, FALSE, EmptyString)

New ==
    [Url |-> EmptyUrl, Method |-> "", Header |-> EmptyMap, Data |-> EmptyMap,
     FormData |-> EmptyMap, QueryData |-> EmptyMap,
     RawStringData |-> EmptyString, RawBytesData |-> <<>>,
     Client |-> NilClient, CheckRedirect |-> "nil", Transport |-> NewTransport,
     Cookies |-> <<>>, Errors |-> <<>>, BasicAuth |-> NoAuth, Debug |-> FALSE]

NilBody == [kind |-> "nil", str |-> EmptyString, bytes |-> <<>>]
StringBody(text) == [kind |-> "string", str |-> text, bytes |-> <<>>]
BytesBody(b) == [kind |-> "bytes", str |-> EmptyString, bytes |-> b]

\* no request built
NoReq ==
    [nil |-> TRUE, Method |-> "", Url |-> "", Body |-> NilBody,
     Header |-> EmptyMap, RawQuery |-> EmptyString, BasicAuth |-> NoAuth,
     Cookies |-> <<>>]

NilResp == [nil |-> TRUE, StatusCode |-> 0, Body |-> <<>>]
NoRet == [kind |-> "none", resp |-> NilResp, body |-> [nil |-> TRUE, bytes |-> <<>>],
          errs |-> <<>>]
Panic == [kind |-> "panic", resp |-> NilResp, body |-> [nil |-> TRUE, bytes |-> <<>>],
          errs |-> <<>>]
Return(resp, body, errs) ==
    [kind |-> "return", resp |-> resp, body |-> body, errs |-> errs]

\* the builder is as New made it, but for the method, the URL and the client
IsFresh == gr = [New EXCEPT !.Method = gr.Method, !.Url = gr.Url, !.Client = gr.Client]

TerminalOps == {"End", "EndBytes"}

\* nothing was executed
NoVia == [client |-> NilClient, Transport |-> NewTransport, CheckRedirect |-> "nil"]

\* the holders of the response of a terminal call: the caller, to whom it is
\* returned, and the callback, which is handed a copy of the struct
Handles == {"returned", "callback"}
Unread == [h \in Handles |-> [done |-> FALSE, bytes |-> <<>>]]

\* the Content-Type that a call sets outright: that of ContentType, and of
\* SetHeader when its key is Content-Type
TypeGiven(name, a) ==
    IF name = "ContentType"
    THEN IF AliasField(a) \in DOMAIN ShortContentTypes
         THEN ShortContentTypes[AliasField(a)] ELSE a
    ELSE IF name = "SetHeader" /\ a[1] = "Content-Type" THEN a[2]
    ELSE "none"

\* the Content-Type that a call writes when it finds none: SendMapString on
\* its form path, SendRawBytes, and a terminal call past its error check
DefaultGiven(name, a) ==
    IF name = "SendMapString" /\ ~DecodesAsMap(a) /\ ParseQueryOk(a)
    THEN "application/x-www-form-urlencoded"
    ELSE IF name = "SendRawBytes" THEN "application/octet-stream"
    ELSE IF name \in TerminalOps /\ gr.Errors = <<>> THEN "application/json"
    ELSE "none"

\* the record of the calls made so far.  ever: the value of the last call
\* that set a Content-Type other than the empty one outright, and before
\* any such call the default of the first call that writes one.  since: the
\* same, counted from the last moment the header held no Content-Type, by
\* Reset or by a call that set the empty one.
TypeRecorded(name, a) ==
    [ever |-> IF TypeGiven(name, a) \notin {"none", ""} THEN TypeGiven(name, a)
              ELSE IF DefaultGiven(name, a) # "none" /\ typeHist.ever = ""
              THEN DefaultGiven(name, a)
              ELSE typeHist.ever,
     since |-> IF name = "Reset" THEN ""
               ELSE IF TypeGiven(name, a) # "none" THEN TypeGiven(name, a)
               ELSE IF DefaultGiven(name, a) # "none" /\ typeHist.since = ""
               THEN DefaultGiven(name, a)
               ELSE typeHist.since]

\* what every call records: its name and argument, whether the builder was
\* fresh, and whether the chain of calls since the last terminal call or
\* Reset has appended an error
Called(name, a) ==
    /\ op' = name
    /\ arg' = a
    /\ wasFresh' = IsFresh
    /\ appended' =
          IF name = "Reset" THEN FALSE
          ELSE IF name \in TerminalOps THEN appended
          ELSE \/ (op \notin TerminalOps /\ appended)
               \/ Len(gr'.Errors) > Len(gr.Errors)
    /\ lastProxy' = IF name = "Proxy" /\ a.parses THEN a.name ELSE lastProxy
    /\ lastPolicy' = IF name = "RedirectPolicy" THEN a ELSE lastPolicy
    /\ typeHist' = TypeRecorded(name, a)
    /\ UNCHANGED workers

\* a setter ran: nothing was built, returned, sent or called back
Setter(name, a) ==
    /\ Called(name, a)
    /\ req' = NoReq
    /\ ret' = NoRet
    /\ doCalls' = 0
    /\ cbCalls' = 0
    /\ via' = NoVia
    /\ logged' = <<>>
    /\ stream' = <<>>
    /\ readBack' = Unread

\* a panic that nothing recovers ends the program
Running == ret.kind # "panic"

Crash(name, a) ==
    /\ Called(name, a)
    /\ req' = NoReq
    /\ ret' = Panic
    /\ doCalls' = 0
    /\ cbCalls' = 0
    /\ via' = NoVia
    /\ logged' = <<>>
    /\ stream' = <<>>
    /\ readBack' = Unread

\* the builders that goroutines of their own run, and such a builder as New
\* made it, with the place its goroutine has reached: in its chain of
\* setters, past line 620 of EndBytes, or past line 633
Builders == {"b1", "b2"}
NewWorker == [g |-> New, pc |-> "chain", via |-> NoVia]

Init ==
    /\ gr = New
    /\ clients = [c \in {UserClient(1), UserClient(2)} |-> UserClientObject]
    /\ op = "New"
    /\ arg = <<>>
    /\ wasFresh = TRUE
    /\ appended = FALSE
    /\ added = EmptyBag
    /\ req = NoReq
    /\ ret = NoRet
    /\ doCalls = 0
    /\ cbCalls = 0
    /\ via = NoVia
    /\ lastProxy = "unset"
    /\ lastPolicy = "nil"
    /\ workers = [b \in Builders |-> NewWorker]
    /\ logged = <<>>
    /\ stream = <<>>
    /\ readBack = Unread
    /\ typeHist = [ever |-> "", since |-> ""]

----------------------------------------------------------------------------
(* The setters *)

SetDebug(enable) ==
    /\ Running
    /\ gr' = [gr EXCEPT !.Debug = enable]
    /\ UNCHANGED <<clients, added>>
    /\ Setter("SetDebug", enable)

SetClient(client) ==
    /\ Running
    /\ gr' = [gr EXCEPT !.Client = client]
    /\ UNCHANGED <<clients, added>>
    /\ Setter("SetClient", client)

\* a Reset that clears the client with the rest
ResetDropsClient ==
    /\ Running
    /\ gr' = [New EXCEPT !.BasicAuth = gr.BasicAuth, !.Transport = gr.Transport,
                         !.CheckRedirect = gr.CheckRedirect, !.Debug = gr.Debug]
    /\ UNCHANGED clients
    /\ added' = EmptyBag
    /\ Setter("Reset", <<>>)

Reset ==
    /\ Running
    /\ gr' = [gr EXCEPT !.Url = EmptyUrl, !.Method = "", !.Header = EmptyMap,
                        !.Data = EmptyMap, !.FormData = EmptyMap,
                        !.QueryData = EmptyMap, !.RawStringData = EmptyString,
                        !.RawBytesData = <<>>, !.Cookies = <<>>,
                        !.Errors = <<>>]
    /\ UNCHANGED clients
    /\ added' = EmptyBag
    /\ Setter("Reset", <<>>)

\* a verb setter without its third line, gr.Errors = nil
SetVerbKeepsErrors(method, targetUrl) ==
    /\ Running
    /\ gr' = [gr EXCEPT !.Method = method, !.Url = targetUrl]
    /\ UNCHANGED <<clients, added>>

\* the body shared by the six verb setters
SetVerb(method, targetUrl) ==
    /\ Running
    /\ gr' = [gr EXCEPT !.Method = method, !.Url = targetUrl, !.Errors = <<>>]
    /\ UNCHANGED <<clients, added>>

Get(targetUrl) == SetVerb(GET, targetUrl) /\ Setter("Get", targetUrl)
Post(targetUrl) == SetVerb(POST, targetUrl) /\ Setter("Post", targetUrl)
HeadVerb(targetUrl) == SetVerb(HEAD, targetUrl) /\ Setter("Head", targetUrl)
Put(targetUrl) == SetVerb(PUT, targetUrl) /\ Setter("Put", targetUrl)
Delete(targetUrl) == SetVerb(DELETE, targetUrl) /\ Setter("Delete", targetUrl)
Patch(targetUrl) == SetVerb(PATCH, targetUrl) /\ Setter("Patch", targetUrl)

SetHeader(param, value) ==
    /\ Running
    /\ gr' = [gr EXCEPT !.Header = HeaderSet(gr.Header, param, value)]
    /\ UNCHANGED <<clients, added>>
    /\ Setter("SetHeader", <<param, value>>)

SetBasicAuth(username, password) ==
    /\ Running
    /\ gr' = [gr EXCEPT !.BasicAuth = [Username |-> username, Password |-> password]]
    /\ UNCHANGED <<clients, added>>
    /\ Setter("SetBasicAuth", <<username, password>>)

AddCookie(c) ==
    /\ Running
    /\ Len(gr.Cookies) < MaxCookies
    /\ gr' = [gr EXCEPT !.Cookies = Append(gr.Cookies, c)]
    /\ UNCHANGED <<clients, added>>
    /\ Setter("AddCookie", c)

\* a ContentType that leaves a Content-Type already set as it is
ContentTypeKeepsFirst(typeStr) ==
    /\ Running
    /\ LET f == AliasField(typeStr)
           t == IF f \in DOMAIN ShortContentTypes THEN ShortContentTypes[f]
                ELSE typeStr
       IN  gr' = IF HeaderGet(gr.Header, "Content-Type") = ""
                 THEN [gr EXCEPT !.Header = HeaderSet(gr.Header, "Content-Type", t)]
                 ELSE gr
    /\ UNCHANGED <<clients, added>>
    /\ Setter("ContentType", typeStr)

ContentType(typeStr) ==
    /\ Running
    /\ LET f == AliasField(typeStr)
           t == IF f \in DOMAIN ShortContentTypes THEN ShortContentTypes[f]
                ELSE typeStr
       IN  gr' = [gr EXCEPT !.Header = HeaderSet(gr.Header, "Content-Type", t)]
    /\ UNCHANGED <<clients, added>>
    /\ Setter("ContentType", typeStr)


\* QueryData.Add for every key of a map of single values
AddAll(values, m) ==
    [k \in DOMAIN values \cup DOMAIN m |->
        (IF k \in DOMAIN values THEN values[k] ELSE <<>>)
        \o (IF k \in DOMAIN m THEN <<m[k]>> ELSE <<>>)]

\* no key of the map holds more than MaxVals values
WithinVals(values) == \A k \in DOMAIN values : Len(values[k]) <= MaxVals

\* the pairs of a map of single values, as a bag
PairBag(m) == SetToBag({<<k, m[k]>> : k \in DOMAIN m})

\* the pairs queryString adds: the members of a JSON object of strings, or
\* of a form string the first value of every key
queryStringPairs(content) ==
    IF DecodesAsStringMap(content)
    THEN [k \in DOMAIN JsonDecode(content) |-> JsonDecode(content)[k].v[1]]
    ELSE [k \in DOMAIN ParseQuery(content) |-> ValuesGet(ParseQuery(content), k)]

queryString(content) ==
    /\ Running
    /\ IF DecodesAsStringMap(content) \/ ParseQueryOk(content)
       THEN /\ WithinVals(AddAll(gr.QueryData, queryStringPairs(content)))
            /\ gr' = [gr EXCEPT !.QueryData = AddAll(gr.QueryData, queryStringPairs(content))]
            /\ added' = added (+) PairBag(queryStringPairs(content))
       ELSE /\ Len(gr.Errors) < MaxErrs
            /\ gr' = [gr EXCEPT !.Errors = Append(gr.Errors, "query")]
            /\ UNCHANGED added
    /\ UNCHANGED clients
    /\ Setter("Query", content)

\* a Go value handed to Query or SendStruct: whether json.Marshal accepts it,
\* whether it marshals to a JSON object, and the members of that object
GoValue(m, o, p) == [marshals |-> m, object |-> o, json |-> Text("json", p)]

queryStruct(content) ==
    /\ Running
    /\ UNCHANGED clients
    /\ IF ~content.marshals \/ ~content.object
       THEN /\ Len(gr.Errors) < MaxErrs
            /\ gr' = [gr EXCEPT !.Errors = Append(gr.Errors, "marshal")]
            /\ UNCHANGED added
            /\ Setter("Query", content)
       ELSE IF \E i \in DOMAIN content.json.pairs : content.json.pairs[i][2].t # "string"
       THEN \* v.(string) on a value that is no string
            /\ gr' = gr
            /\ UNCHANGED added
            /\ Crash("Query", content)
       ELSE /\ WithinVals(AddAll(gr.QueryData, queryStringPairs(content.json)))
            /\ gr' = [gr EXCEPT !.QueryData = AddAll(gr.QueryData, queryStringPairs(content.json))]
            /\ added' = added (+) PairBag(queryStringPairs(content.json))
            /\ Setter("Query", content)

\* lines 266-275: a string goes to queryString, a struct to queryStruct
Query(content) ==
    IF "fmt" \in DOMAIN content THEN queryString(content) ELSE queryStruct(content)

Param(key, value) ==
    /\ Running
    /\ WithinVals(Add(gr.QueryData, key, value))
    /\ gr' = [gr EXCEPT !.QueryData = Add(gr.QueryData, key, value)]
    /\ added' = added (+) SetToBag({<<key, value>>})
    /\ UNCHANGED clients
    /\ Setter("Param", <<key, value>>)

Timeout(timeout) ==
    /\ Running
    /\ gr' = [gr EXCEPT !.Transport.Dial = timeout]
    /\ UNCHANGED <<clients, added>>
    /\ Setter("Timeout", timeout)

TLSClientConfig(config) ==
    /\ Running
    /\ gr' = [gr EXCEPT !.Transport.TLSClientConfig = config]
    /\ UNCHANGED <<clients, added>>
    /\ Setter("TLSClientConfig", config)

\* a proxy URL: its text and whether url.Parse accepts it
ProxyUrl(n, p) == [name |-> n, parses |-> p]

\* a Proxy for which the empty string changes nothing
ProxyIgnoresEmpty(proxyUrl) ==
    /\ Running
    /\ IF ~proxyUrl.parses
       THEN /\ Len(gr.Errors) < MaxErrs
            /\ gr' = [gr EXCEPT !.Errors = Append(gr.Errors, "proxy")]
       ELSE IF proxyUrl.name = ""
       THEN gr' = gr
       ELSE gr' = [gr EXCEPT !.Transport.Proxy = proxyUrl.name]
    /\ UNCHANGED <<clients, added>>
    /\ Setter("Proxy", proxyUrl)

Proxy(proxyUrl) ==
    /\ Running
    /\ IF ~proxyUrl.parses
       THEN /\ Len(gr.Errors) < MaxErrs
            /\ gr' = [gr EXCEPT !.Errors = Append(gr.Errors, "proxy")]
       ELSE IF proxyUrl.name = ""
       THEN gr' = [gr EXCEPT !.Transport.Proxy = "nil"]
       ELSE gr' = [gr EXCEPT !.Transport.Proxy = proxyUrl.name]
    /\ UNCHANGED <<clients, added>>
    /\ Setter("Proxy", proxyUrl)

RedirectPolicy(policy) ==
    /\ Running
    /\ gr' = [gr EXCEPT !.CheckRedirect = policy]
    /\ clients' = IF gr.Client # NilClient
                  THEN [clients EXCEPT ![gr.Client].CheckRedirect = policy]
                  ELSE clients
    /\ UNCHANGED added
    /\ Setter("RedirectPolicy", policy)

\* a merge that keeps the value of a key already present
AssignKeepsOld(data, val) ==
    [k \in DOMAIN data \cup DOMAIN val |->
        IF k \in DOMAIN data THEN data[k] ELSE val[k]]

\* for k, v := range val { gr.Data[k] = v }
Assign(data, val) ==
    [k \in DOMAIN data \cup DOMAIN val |->
        IF k \in DOMAIN val THEN val[k] ELSE data[k]]

SendStruct(content) ==
    /\ Running
    /\ IF ~content.marshals \/ ~content.object
       THEN /\ Len(gr.Errors) < MaxErrs
            /\ gr' = [gr EXCEPT !.Errors = Append(gr.Errors, "marshal")]
       ELSE gr' = [gr EXCEPT !.Data = Assign(gr.Data, JsonDecode(content.json))]
    /\ UNCHANGED <<clients, added>>
    /\ Setter("SendStruct", content)

\* the form branch with the new value put after the old ones
FormMergeAppends(data, formVal) ==
    [k \in DOMAIN data \cup DOMAIN formVal |->
        IF k \notin DOMAIN formVal THEN data[k]
        ELSE IF k \in DOMAIN data
        THEN StrsVal((IF data[k].t \in {"strings", "string"}
                      THEN data[k].v ELSE <<>>)
                     \o <<ValuesGet(formVal, k)>>)
        ELSE StrVal(ValuesGet(formVal, k))]

\* the form branch of SendMapString for one key: a key already present
\* becomes a []string of the new value and then the old string or strings
FormMerge(data, formVal) ==
    [k \in DOMAIN data \cup DOMAIN formVal |->
        IF k \notin DOMAIN formVal THEN data[k]
        ELSE IF k \in DOMAIN data
        THEN StrsVal(<<ValuesGet(formVal, k)>>
                     \o (IF data[k].t \in {"strings", "string"}
                         THEN data[k].v ELSE <<>>))
        ELSE StrVal(ValuesGet(formVal, k))]

\* no []string of the map is longer than MaxArr
WithinArr(data) == \A k \in DOMAIN data : Len(data[k].v) <= MaxArr

SendMapString(content) ==
    /\ Running
    /\ IF DecodesAsMap(content)
       THEN gr' = [gr EXCEPT !.Data = Assign(gr.Data, JsonDecode(content))]
       ELSE IF ParseQueryOk(content)
       THEN /\ WithinArr(FormMerge(gr.Data, ParseQuery(content)))
            /\ gr' = [gr EXCEPT
                        !.Data = FormMerge(gr.Data, ParseQuery(content)),
                        !.Header =
                            IF HeaderGet(gr.Header, "Content-Type") = ""
                            THEN HeaderSet(gr.Header, "Content-Type",
                                           "application/x-www-form-urlencoded")
                            ELSE gr.Header]
       ELSE gr' = [gr EXCEPT !.RawStringData = content]
    /\ UNCHANGED <<clients, added>>
    /\ Setter("SendMapString", content)

SendRawString(content) ==
    /\ Running
    /\ gr' = [gr EXCEPT !.RawStringData = content]
    /\ UNCHANGED <<clients, added>>
    /\ Setter("SendRawString", content)

\* SendRawBytes with lines 491-493 writing its Content-Type over any other
SendRawBytesOverwrites(content) ==
    /\ Running
    /\ gr' = [gr EXCEPT
                !.Header = HeaderSet(gr.Header, "Content-Type",
                                     "application/octet-stream"),
                !.RawBytesData = content]
    /\ UNCHANGED <<clients, added>>
    /\ Setter("SendRawBytes", content)

\* lines 490-496
SendRawBytes(content) ==
    /\ Running
    /\ gr' = [gr EXCEPT
                !.Header = IF HeaderGet(gr.Header, "Content-Type") = ""
                           THEN HeaderSet(gr.Header, "Content-Type",
                                          "application/octet-stream")
                           ELSE gr.Header,
                !.RawBytesData = content]
    /\ UNCHANGED <<clients, added>>
    /\ Setter("SendRawBytes", content)


----------------------------------------------------------------------------
(* The terminal call *)

\* line 563: there is an error to return
HasErrorsSkipsFirst(g) == Len(g.Errors) > 1
HasErrors(g) == Len(g.Errors) # 0

\* lines 567-569: an empty Content-Type becomes application/json
DefaultedHeader(h) ==
    IF HeaderGet(h, "Content-Type") = ""
    THEN HeaderSet(h, "Content-Type", "application/json")
    ELSE h

\* lines 573-584: the body of a POST, PUT or PATCH
ChooseBodyRawFirst(g, h) ==
    IF HeaderGet(h, "Content-Type") = "application/json" /\ DOMAIN g.Data # {}
    THEN StringBody(JsonMarshal(g.Data))
    ELSE IF Len(g.RawBytesData) > 0
    THEN BytesBody(g.RawBytesData)
    ELSE IF HeaderGet(h, "Content-Type") = "application/x-www-form-urlencoded"
    THEN StringBody(Encode(changeMapToURLValues(g.Data)))
    ELSE StringBody(g.RawStringData)

ChooseBody(g, h) ==
    IF HeaderGet(h, "Content-Type") = "application/json" /\ DOMAIN g.Data # {}
    THEN StringBody(JsonMarshal(g.Data))
    ELSE IF HeaderGet(h, "Content-Type") = "application/x-www-form-urlencoded"
    THEN StringBody(Encode(changeMapToURLValues(g.Data)))
    ELSE IF Len(g.RawBytesData) > 0
    THEN BytesBody(g.RawBytesData)
    ELSE StringBody(g.RawStringData)

\* lines 571-587: the switch on the method
MethodBodyDeleteSends(g, h) ==
    IF g.Method \in {POST, PUT, PATCH, DELETE} THEN ChooseBody(g, h) ELSE NilBody

MethodBody(g, h) ==
    IF g.Method \in {POST, PUT, PATCH} THEN ChooseBody(g, h) ELSE NilBody

\* the switch builds a request only for the six methods, and http.NewRequest
\* only for a URL that parses
RequestBuilt(g) ==
    /\ g.Method \in {POST, PUT, PATCH, GET, HEAD, DELETE}
    /\ g.Url.parses

\* lines 593-599: the query of the URL, then every value of QueryData
RECURSIVE AddValues(_, _, _)
AddValues(q, k, vs) ==
    IF vs = <<>> THEN q ELSE AddValues(Add(q, k, Head(vs)), k, Tail(vs))

RECURSIVE MergeQuery(_, _, _)
MergeQuery(q, queryData, ks) ==
    IF ks = <<>> THEN q
    ELSE MergeQuery(AddValues(q, Head(ks), queryData[Head(ks)]), queryData, Tail(ks))

RawQuery(g) ==
    Encode(MergeQuery(ParseQuery(g.Url.query), g.QueryData, SortedKeys(g.QueryData)))

\* lines 571-609: the request as handed to the client
BuildRequest(g, h) ==
    [nil |-> FALSE, Method |-> g.Method, Url |-> g.Url.name,
     Body |-> MethodBody(g, h), Header |-> h, RawQuery |-> RawQuery(g),
     BasicAuth |-> g.BasicAuth, Cookies |-> g.Cookies]

DefaultsMade == {c \in DOMAIN clients : c[1] = "default"}

\* lines 611-620: the client that executes, created when there is none, with
\* the redirect policy and the builder's transport installed
ResolveClient(g) ==
    IF g.Client = NilClient THEN DefaultClient(Cardinality(DefaultsMade) + 1)
    ELSE g.Client

\* lines 611-620 without lines 615-617
InstallClientWithoutPolicy(g) ==
    LET c == ResolveClient(g)
        made == [x \in DOMAIN clients \cup {c} |->
                    IF x \in DOMAIN clients THEN clients[x] ELSE DefaultClientObject]
    IN  [made EXCEPT ![c].Transport = "gr"]

InstallClient(g) ==
    LET c == ResolveClient(g)
        made == [x \in DOMAIN clients \cup {c} |->
                    IF x \in DOMAIN clients THEN clients[x] ELSE DefaultClientObject]
    IN  [made EXCEPT ![c].CheckRedirect =
                         IF g.CheckRedirect # "nil" THEN g.CheckRedirect ELSE @,
                     ![c].Transport = "gr"]

\* what gr.Client.Do gives: a response, a failure of the dial function
\* installed by Timeout (which appends to gr.Errors itself), or another
\* transport failure
DoOk(status, body) == [kind |-> "ok", StatusCode |-> status, Body |-> body]
DoDialErr == [kind |-> "dial", StatusCode |-> 0, Body |-> <<>>]
DoErr == [kind |-> "err", StatusCode |-> 0, Body |-> <<>>]

DoPossible(g, outcome) ==
    /\ outcome.kind = "ok" => g.Url.scheme
    /\ outcome.kind = "dial" => g.Transport.Dial # "nil"

\* line 644 with a response of status 500 and above taken for a failure
FailedOnServerError(outcome) == outcome.kind # "ok" \/ outcome.StatusCode >= 500

\* line 644: err != nil, whatever the status of a response
Failed(outcome) == outcome.kind # "ok"

\* string(body) in End
View(view, body) == IF view = "string" THEN [body EXCEPT !.nil = FALSE] ELSE body

Terminal(name, view, hasCallback, outcome) ==
    /\ Running
    /\ Called(name, <<hasCallback, outcome>>)
    /\ UNCHANGED added
    /\ IF HasErrors(gr)
       THEN \* lines 563-565
            /\ UNCHANGED <<gr, clients>>
            /\ req' = NoReq
            /\ ret' = Return(NilResp, View(view, [nil |-> TRUE, bytes |-> <<>>]), gr.Errors)
            /\ doCalls' = 0
            /\ cbCalls' = 0
            /\ via' = NoVia
            /\ logged' = <<>>
            /\ stream' = <<>>
            /\ readBack' = Unread
       ELSE IF ~RequestBuilt(gr)
       THEN \* line 590: req is nil
            /\ gr' = [gr EXCEPT !.Header = DefaultedHeader(gr.Header)]
            /\ UNCHANGED clients
            /\ req' = NoReq
            /\ ret' = Panic
            /\ doCalls' = 0
            /\ cbCalls' = 0
            /\ via' = NoVia
            /\ logged' = <<>>
            /\ stream' = <<>>
            /\ readBack' = Unread
       ELSE /\ gr.Client = NilClient => Cardinality(DefaultsMade) < MaxDefault
            /\ DoPossible(gr, outcome)
            /\ clients' = InstallClient(gr)
            /\ req' = BuildRequest(gr, DefaultedHeader(gr.Header))
            /\ doCalls' = 1
            /\ readBack' = Unread
            /\ via' = [client |-> ResolveClient(gr), Transport |-> gr.Transport,
                       CheckRedirect |->
                           InstallClient(gr)[ResolveClient(gr)].CheckRedirect]
            /\ LET dialed == IF outcome.kind = "dial"
                             THEN Append(gr.Errors, "dial") ELSE gr.Errors
                   g1 == [gr EXCEPT !.Header = DefaultedHeader(gr.Header),
                                    !.Client = ResolveClient(gr),
                                    !.Errors = dialed]
               IN  IF Failed(outcome) /\ gr.Debug
                   THEN \* line 637: DumpResponse of a nil response
                        /\ gr' = g1
                        /\ ret' = Panic
                        /\ cbCalls' = 0
                        /\ logged' = <<"HTTP Request">>
                        /\ stream' = <<>>
                   ELSE IF Failed(outcome)
                   THEN \* lines 644-647
                        /\ gr' = [g1 EXCEPT !.Errors = Append(dialed, "transport")]
                        /\ ret' = Return(NilResp,
                                         View(view, [nil |-> TRUE, bytes |-> <<>>]),
                                         Append(dialed, "transport"))
                        /\ cbCalls' = 0
                        /\ logged' = <<>>
                        /\ stream' = <<>>
                   ELSE \* lines 648-658
                        /\ gr' = g1
                        /\ logged' = IF gr.Debug
                                      THEN <<"HTTP Request", "HTTP Response">>
                                      ELSE <<>>
                        /\ stream' = outcome.Body
                        /\ ret' = Return([nil |-> FALSE, StatusCode |-> outcome.StatusCode,
                                          Body |-> outcome.Body],
                                         View(view, [nil |-> FALSE, bytes |-> outcome.Body]),
                                         <<>>)
                        /\ cbCalls' = IF hasCallback THEN 1 ELSE 0

End(hasCallback, outcome) == Terminal("End", "string", hasCallback, outcome)
EndBytes(hasCallback, outcome) == Terminal("EndBytes", "bytes", hasCallback, outcome)

\* ioutil.ReadAll on the Body of the response that the last terminal call
\* gave to holder h.  Line 654 copies the response struct for the callback,
\* and with it the Body field, an interface value: the copy and the returned
\* response read the one buffer of line 652, and a read drains it.
ReadBody(h) ==
    /\ Running
    /\ op \in TerminalOps
    /\ ret.kind = "return"
    /\ ~ret.resp.nil
    /\ h = "callback" => cbCalls = 1
    /\ ~readBack[h].done
    /\ readBack' = [readBack EXCEPT ![h] = [done |-> TRUE, bytes |-> stream]]
    /\ stream' = <<>>
    /\ UNCHANGED <<gr, clients, op, arg, wasFresh, appended, added, req, ret,
                   doCalls, cbCalls, via, lastProxy, lastPolicy, workers,
                   logged, typeHist>>


----------------------------------------------------------------------------
(* Builders run side by side *)

\* what a step of a worker leaves alone: the single builder and its history
builderVars ==
    <<gr, op, arg, wasFresh, appended, added, req, ret, doCalls, cbCalls, via,
      lastProxy, lastPolicy, logged, stream, readBack, typeHist>>

\* no goroutine has panicked, and worker b is in its chain of setters
InChain(b) ==
    /\ \A w \in Builders : workers[w].pc # "panic"
    /\ workers[b].pc = "chain"

\* lines 87-90
WorkerSetClient(b, client) ==
    /\ InChain(b)
    /\ workers' = [workers EXCEPT ![b].g.Client = client]
    /\ UNCHANGED <<clients, builderVars>>

\* lines 116-121
WorkerGet(b, targetUrl) ==
    /\ InChain(b)
    /\ workers' = [workers EXCEPT ![b].g.Method = GET, ![b].g.Url = targetUrl,
                                  ![b].g.Errors = <<>>]
    /\ UNCHANGED <<clients, builderVars>>

\* lines 361-371
WorkerProxy(b, proxyUrl) ==
    /\ InChain(b)
    /\ ~proxyUrl.parses => Len(workers[b].g.Errors) < MaxErrs
    /\ workers' =
          IF ~proxyUrl.parses
          THEN [workers EXCEPT ![b].g.Errors = Append(@, "proxy")]
          ELSE IF proxyUrl.name = ""
          THEN [workers EXCEPT ![b].g.Transport.Proxy = "nil"]
          ELSE [workers EXCEPT ![b].g.Transport.Proxy = proxyUrl.name]
    /\ UNCHANGED <<clients, builderVars>>

\* lines 320-331
WorkerTimeout(b, timeout) ==
    /\ InChain(b)
    /\ workers' = [workers EXCEPT ![b].g.Transport.Dial = timeout]
    /\ UNCHANGED <<clients, builderVars>>

\* lines 611-620 for the builder named owner: its client, created when there
\* is none, is given the redirect check and a pointer to the builder's
\* transport
InstallFor(g, owner) ==
    LET c == ResolveClient(g)
        made == [x \in DOMAIN clients \cup {c} |->
                    IF x \in DOMAIN clients THEN clients[x] ELSE DefaultClientObject]
    IN  [made EXCEPT ![c].CheckRedirect =
                         IF g.CheckRedirect # "nil" THEN g.CheckRedirect ELSE @,
                     ![c].Transport = owner]

\* EndBytes from its entry to line 620: the return of line 564, the nil
\* request of line 590, or the client resolved and given the transport
WorkerEndBytes(b) ==
    /\ InChain(b)
    /\ UNCHANGED builderVars
    /\ LET g == workers[b].g
       IN  IF HasErrors(g)
           THEN /\ workers' = [workers EXCEPT ![b].pc = "done"]
                /\ UNCHANGED clients
           ELSE IF ~RequestBuilt(g)
           THEN /\ workers' = [workers EXCEPT
                                  ![b].g.Header = DefaultedHeader(g.Header),
                                  ![b].pc = "panic"]
                /\ UNCHANGED clients
           ELSE /\ g.Client = NilClient => Cardinality(DefaultsMade) < MaxDefault
                /\ clients' = InstallFor(g, b)
                /\ workers' = [workers EXCEPT
                                  ![b].g.Header = DefaultedHeader(g.Header),
                                  ![b].g.Client = ResolveClient(g),
                                  ![b].pc = "installed"]

\* the transport a client's Transport field points to
TransportAt(pointer) ==
    IF pointer \in Builders THEN workers[pointer].g.Transport
    ELSE IF pointer = "gr" THEN gr.Transport
    ELSE NewTransport

\* EndBytes from line 633 to its return: Do reads the Transport field of
\* the client as it is at that moment
WorkerDo(b, outcome) ==
    /\ \A w \in Builders : workers[w].pc # "panic"
    /\ workers[b].pc = "installed"
    /\ outcome.kind # "dial"
    /\ LET g == workers[b].g
           used == [client |-> g.Client,
                    Transport |-> TransportAt(clients[g.Client].Transport),
                    CheckRedirect |-> clients[g.Client].CheckRedirect]
       IN  IF Failed(outcome) /\ g.Debug
           THEN workers' = [workers EXCEPT ![b].via = used, ![b].pc = "panic"]
           ELSE IF Failed(outcome)
           THEN workers' = [workers EXCEPT ![b].via = used, ![b].pc = "done",
                                          ![b].g.Errors = Append(@, "transport")]
           ELSE workers' = [workers EXCEPT ![b].via = used, ![b].pc = "done"]
    /\ UNCHANGED <<clients, builderVars>>

----------------------------------------------------------------------------
(* The inputs *)

UrlPlain == TargetUrl("http://h/p", TRUE, TRUE, EmptyString)
UrlQuery == TargetUrl("http://h/p?a=x", TRUE, TRUE, Text("form", << <<"a", StrVal("x")>> >>))
UrlBadSegment ==
    TargetUrl("http://h/p?b=y&b=%zz", TRUE, TRUE,
              Text("form", << <<"b", StrVal("y")>>, <<"b", BadVal>> >>))
UrlMalformed == TargetUrl("http://h/%zz", FALSE, FALSE, EmptyString)

JsonEmpty == Text("json", <<>>)                                   \* {}
JsonA == Text("json", << <<"a", StrVal("x")>> >>)                 \* {"a":"x"}
JsonNum == Text("json", << <<"a", NumVal("1")>> >>)               \* {"a":1}
JsonBA == Text("json", << <<"b", ArrVal(<<"x">>)>>, <<"a", StrVal("y")>> >>)
JsonDup == Text("json", << <<"a", StrVal("x")>>, <<"a", StrVal("y")>> >>)
FormA == Text("form", << <<"a", StrVal("x")>> >>)                 \* a=x
FormA2 == Text("form", << <<"a", StrVal("y")>> >>)                \* a=y
FormAA == Text("form", << <<"a", StrVal("x")>>, <<"a", StrVal("y")>> >>)
FormB == Text("form", << <<"b", StrVal("x")>> >>)                 \* b=x
Unparsable == Text("form", << <<"a", BadVal>> >>)                 \* a=%zz

JsonTexts == {JsonEmpty, JsonA, JsonNum, JsonBA, JsonDup}
FormTexts == {FormA, FormA2, FormAA, FormB, EmptyString}
Texts == JsonTexts \cup FormTexts \cup {Unparsable}

StructA == GoValue(TRUE, TRUE, << <<"a", StrVal("y")>> >>)        \* struct{a string}
StructNum == GoValue(TRUE, TRUE, << <<"b", NumVal("1")>> >>)      \* struct{b int}
NoStruct == GoValue(TRUE, FALSE, <<>>)                            \* a Go string
Unmarshalable == GoValue(FALSE, FALSE, <<>>)                      \* a channel
GoValues == {StructA, StructNum, NoStruct, Unmarshalable}

ProxyUrls == {ProxyUrl("", TRUE), ProxyUrl("http://proxy", TRUE), ProxyUrl("%zz", FALSE)}

Responses == {DoOk(200, <<1>>), DoOk(500, <<>>)}
Outcomes == Responses \cup {DoErr, DoDialErr}

----------------------------------------------------------------------------
(* The specifications *)

Verbs(urls) ==
    \/ \E u \in urls : Get(u)
    \/ \E u \in urls : Post(u)
    \/ \E u \in urls : HeadVerb(u)
    \/ \E u \in urls : Put(u)
    \/ \E u \in urls : Delete(u)
    \/ \E u \in urls : Patch(u)

Terminals(outcomes) ==
    \/ \E cb \in BOOLEAN, o \in outcomes : End(cb, o)
    \/ \E cb \in BOOLEAN, o \in outcomes : EndBytes(cb, o)

\* every operation, on every input
Next ==
    \/ Verbs({UrlPlain, UrlQuery, UrlBadSegment, UrlMalformed, EmptyUrl})
    \/ \E e \in BOOLEAN : SetDebug(e)
    \/ \E c \in {NilClient, UserClient(1), UserClient(2)} : SetClient(c)
    \/ Reset
    \/ \E v \in {"", "text/plain"} : SetHeader("Content-Type", v)
    \/ SetHeader("Accept", "*/*")
    \/ SetBasicAuth("user", "pass")
    \/ AddCookie("c1")
    \/ \E t \in {"json", "form", "form-data", "stream", "text/csv"} : ContentType(t)
    \/ \E c \in Texts \cup GoValues : Query(c)
    \/ \E k \in {"a", "b"}, v \in {"x", "y"} : Param(k, v)
    \/ Timeout("2ms")
    \/ TLSClientConfig("insecure")
    \/ \E p \in ProxyUrls : Proxy(p)
    \/ \E f \in {"p1", "p2"} : RedirectPolicy(f)
    \/ \E c \in GoValues : SendStruct(c)
    \/ \E c \in Texts : SendMapString(c)
    \/ \E c \in Texts : SendRawString(c)
    \/ \E b \in {<<>>, <<104>>} : SendRawBytes(b)
    \/ Terminals(Outcomes)

Spec == Init /\ [][Next]_vars

\* construction errors and the terminal call
NextErrors ==
    \/ Verbs({UrlPlain})
    \/ \E p \in {ProxyUrl("http://proxy", TRUE), ProxyUrl("%zz", FALSE)} : Proxy(p)
    \/ Query(Unparsable)
    \/ SendStruct(Unmarshalable)
    \/ Terminals({DoOk(200, <<1>>), DoErr})

SpecErrors == Init /\ [][NextErrors]_vars

\* the body setters, the content type and the terminal call
NextBody ==
    \/ Verbs({UrlPlain})
    \/ \E t \in {"json", "form", "text/csv"} : ContentType(t)
    \/ \E c \in {FormA, JsonBA, JsonNum} : SendMapString(c)
    \/ SendRawString(JsonA)
    \/ SendRawBytes(<<104>>)
    \/ Terminals({DoOk(200, <<1>>)})

SpecBody == Init /\ [][NextBody]_vars

\* JSON texts sent from a fresh builder
NextJson ==
    \/ \E u \in {UrlPlain} : Post(u)
    \/ \E u \in {UrlPlain} : Put(u)
    \/ \E u \in {UrlPlain} : Patch(u)
    \/ \E u \in {UrlPlain} : Get(u)
    \/ \E t \in {"form", "json"} : ContentType(t)
    \/ \E c \in JsonTexts \cup {FormA} : SendMapString(c)
    \/ SendRawString(JsonA)
    \/ Reset
    \/ Terminals({DoOk(200, <<1>>)})

SpecJson == Init /\ [][NextJson]_vars

\* writes of one key by the three setters of structured data
NextMerge ==
    \/ Post(UrlPlain)
    \/ \E c \in {FormA, FormA2, FormAA, FormB, JsonA, JsonNum, JsonBA} : SendMapString(c)
    \/ \E c \in {StructA, StructNum} : SendStruct(c)
    \/ Terminals({DoOk(200, <<1>>)})

SpecMerge == Init /\ [][NextMerge]_vars

\* Reset after the setters of the fields it clears, and the client
NextReset ==
    \/ Get(UrlPlain)
    \/ Reset
    \/ SetClient(UserClient(1))
    \/ SetHeader("Content-Type", "text/plain")
    \/ AddCookie("c1")
    \/ Param("a", "x")
    \/ Proxy(ProxyUrl("%zz", FALSE))
    \/ SendMapString(JsonA)
    \/ SendRawString(JsonA)
    \/ SendRawBytes(<<104>>)
    \/ Terminals({DoOk(200, <<1>>)})

SpecReset == Init /\ [][NextReset]_vars

\* Reset after the setters of authentication, transport and redirect policy
NextResetConfig ==
    \/ Get(UrlPlain)
    \/ Reset
    \/ SetBasicAuth("user", "pass")
    \/ Timeout("2ms")
    \/ TLSClientConfig("insecure")
    \/ Proxy(ProxyUrl("http://proxy", TRUE))
    \/ RedirectPolicy("p1")
    \/ SetHeader("Accept", "*/*")
    \/ Terminals({DoOk(200, <<1>>)})

SpecResetConfig == Init /\ [][NextResetConfig]_vars

\* the query parameters and the terminal call
NextQuery ==
    \/ \E u \in {UrlPlain, UrlQuery, UrlBadSegment} : Get(u)
    \/ \E c \in {JsonA, FormAA, FormB, Unparsable, StructA} : Query(c)
    \/ Param("a", "y")
    \/ Reset
    \/ Terminals({DoOk(200, <<1>>)})

SpecQuery == Init /\ [][NextQuery]_vars

\* Proxy calls, the other setters of the transport and the terminal call
NextProxy ==
    \/ Get(UrlPlain)
    \/ \E p \in ProxyUrls \cup {ProxyUrl("http://other", TRUE)} : Proxy(p)
    \/ Timeout("2ms")
    \/ Reset
    \/ Terminals({DoOk(200, <<1>>), DoErr})

SpecProxy == Init /\ [][NextProxy]_vars

\* the aliases of ContentType, other type strings and other headers
TypeStrings ==
    {"html", "text", "json", "xml", "urlencoded", "form", "form-data", "stream",
     "text/csv", "formdata", "JSON"}

NextContentType ==
    \/ Post(UrlPlain)
    \/ \E t \in TypeStrings : ContentType(t)
    \/ SetHeader("Content-Type", "text/plain")
    \/ SetHeader("Accept", "*/*")
    \/ SendMapString(FormA)
    \/ Terminals({DoOk(200, <<1>>)})

SpecContentType == Init /\ [][NextContentType]_vars

\* the outcomes of the client: responses of several statuses and failures
NextResponses ==
    \/ Get(UrlPlain)
    \/ Post(UrlPlain)
    \/ Timeout("2ms")
    \/ Query(Unparsable)
    \/ \E e \in BOOLEAN : SetDebug(e)
    \/ Terminals(Outcomes \cup {DoOk(404, <<2, 3>>)})

SpecResponses == Init /\ [][NextResponses]_vars

\* the redirect policy and the client, set in any order
NextRedirect ==
    \/ Get(UrlPlain)
    \/ \E f \in {"p1", "p2"} : RedirectPolicy(f)
    \/ \E c \in {NilClient, UserClient(1), UserClient(2)} : SetClient(c)
    \/ Reset
    \/ Terminals({DoOk(200, <<1>>)})

SpecRedirect == Init /\ [][NextRedirect]_vars

\* form strings, one with a repeated key, given to Query and SendMapString
NextFormString ==
    \/ Post(UrlPlain)
    \/ \E c \in {FormA, FormAA, FormB} : Query(c)
    \/ \E c \in {FormA, FormAA, FormB} : SendMapString(c)
    \/ Terminals({DoOk(200, <<1>>)})

SpecFormString == Init /\ [][NextFormString]_vars

\* the terminal call, and the reading of the response it gave out
NextStream ==
    \/ Verbs({UrlPlain})
    \/ Terminals({DoOk(200, <<1>>), DoOk(404, <<2, 3>>), DoErr})
    \/ \E h \in Handles : ReadBody(h)

SpecStream == Init /\ [][NextStream]_vars

\* the calls that set a Content-Type, those that default it, and Reset
NextType ==
    \/ Post(UrlPlain)
    \/ \E t \in {"form", "text/csv"} : ContentType(t)
    \/ \E v \in {"text/plain", ""} : SetHeader("Content-Type", v)
    \/ SetHeader("Accept", "*/*")
    \/ \E c \in {FormA, JsonA} : SendMapString(c)
    \/ SendRawBytes(<<104>>)
    \/ Reset
    \/ Terminals({DoOk(200, <<1>>)})

SpecType == Init /\ [][NextType]_vars

\* the verb setters on a builder that the other setters have filled
NextVerb ==
    \/ Verbs({UrlPlain})
    \/ Post(UrlQuery)
    \/ Proxy(ProxyUrl("%zz", FALSE))
    \/ SendMapString(JsonA)
    \/ SendRawBytes(<<104>>)
    \/ Param("a", "x")
    \/ AddCookie("c1")
    \/ SetBasicAuth("user", "pass")
    \/ SetClient(UserClient(1))
    \/ Timeout("2ms")
    \/ RedirectPolicy("p1")

SpecVerb == Init /\ [][NextVerb]_vars

\* two builders, each run by a goroutine of its own, that may share a client
NextShare ==
    \/ \E b \in Builders : WorkerSetClient(b, UserClient(1))
    \/ \E b \in Builders, u \in {UrlPlain, UrlMalformed} : WorkerGet(b, u)
    \/ \E b \in Builders, p \in ProxyUrls \cup {ProxyUrl("http://other", TRUE)} :
          WorkerProxy(b, p)
    \/ \E b \in Builders : WorkerTimeout(b, "2ms")
    \/ \E b \in Builders : WorkerEndBytes(b)
    \/ \E b \in Builders, o \in {DoOk(200, <<1>>), DoErr} : WorkerDo(b, o)

SpecShare == Init /\ [][NextShare]_vars


----------------------------------------------------------------------------
(* Construction errors and the terminal call *)

\* C1: a terminal call entered with a non-empty error list returns a nil
\* response, a nil body and that list, and does nothing else: the client
\* is not invoked, no callback runs, no client is created and the builder,
\* its Content-Type included, is left as it was.
C1_ShortCircuit ==
    [][(op' \in TerminalOps /\ Len(gr.Errors) # 0) =>
          /\ ret'.kind = "return"
          /\ ret'.resp.nil
          /\ ret'.body.bytes = <<>>
          /\ (op' = "EndBytes" => ret'.body.nil)
          /\ ret'.errs = gr.Errors
          /\ req'.nil
          /\ doCalls' = 0
          /\ cbCalls' = 0
          /\ clients' = clients
          /\ gr' = gr]_vars

\* a terminal call given a callback returned two errors of a builder that
\* has no client and no Content-Type
C1_Witness ==
    /\ op \in TerminalOps
    /\ arg[1]
    /\ Len(ret.errs) = 2
    /\ doCalls = 0
    /\ gr.Client = NilClient
    /\ gr.Header = EmptyMap

\* C2: when a setter of the chain has appended a construction error, the
\* terminal call that follows returns a nil response and a non-empty error
\* list and does not invoke the client, wherever the verb setter stands.
C2_ErrorChainShortCircuits ==
    (op \in TerminalOps /\ appended) =>
        /\ ret.kind = "return"
        /\ ret.resp.nil
        /\ ret.errs # <<>>
        /\ doCalls = 0

----------------------------------------------------------------------------
(* The body of the request *)

ContentTypeSent == HeaderGet(req.Header, "Content-Type")

\* the values a body lists under key k, in their order
ValuesUnder(text, k) ==
    LET mine == SelectSeq(text.pairs, LAMBDA pr : pr[1] = k)
    IN  Concat([i \in DOMAIN mine |-> mine[i][2].v])

\* the body is the JSON object of the structured data: every key once, with
\* the text of its value
IsJsonOf(body, data) ==
    /\ body.kind = "string"
    /\ body.str.fmt = "json"
    /\ Len(body.str.pairs) = Cardinality(DOMAIN data)
    /\ TextKeys(body.str.pairs) = DOMAIN data
    /\ \A k \in DOMAIN data : ValuesUnder(body.str, k) = data[k].v

\* the body is the form encoding of the structured data: a string or number
\* once, a []string once per element, in order
IsFormOf(body, data) ==
    /\ body.kind = "string"
    /\ body.str.fmt = "form"
    /\ TextKeys(body.str.pairs) \subseteq DOMAIN data
    /\ \A i \in DOMAIN body.str.pairs : body.str.pairs[i][2].t = "string"
    /\ \A k \in DOMAIN data :
          ValuesUnder(body.str, k) =
              IF data[k].t \in {"string", "strings", "number"} THEN data[k].v ELSE <<>>

C4_NoBody ==
    (op \in TerminalOps /\ ~req.nil /\ req.Method \in {GET, HEAD, DELETE}) =>
        req.Body = NilBody

\* a DELETE went out with no body from a builder holding structured data,
\* raw bytes and a raw string
C4_Witness ==
    /\ op \in TerminalOps
    /\ ~req.nil
    /\ req.Method = DELETE
    /\ req.Body.kind = "nil"
    /\ DOMAIN gr.Data # {}
    /\ gr.RawBytesData # <<>>
    /\ gr.RawStringData # EmptyString


\* the text a JSON object gives for key k: that of its last member with k
LastMember(text, k) == text.pairs[Max(Occ(text.pairs, k))][2]

\* the body is the JSON serialization of the pairs decoded from the text s:
\* one member for every key of s, carrying the value of the last member of s
\* with that key, a number as the literal it was written with
IsRoundTripOf(body, s) ==
    /\ body.kind = "string"
    /\ body.str.fmt = "json"
    /\ Len(body.str.pairs) = Cardinality(TextKeys(s.pairs))
    /\ TextKeys(body.str.pairs) = TextKeys(s.pairs)
    /\ \A i \in DOMAIN body.str.pairs :
          body.str.pairs[i][2] = LastMember(s, body.str.pairs[i][1])

\* SendMapString(s) has just run on a fresh builder whose method is POST, PUT
\* or PATCH, s being the text of a JSON object, and a terminal call builds
\* the request
SendsJsonFromFresh ==
    /\ op = "SendMapString"
    /\ wasFresh
    /\ arg.fmt = "json"
    /\ gr.Method \in {POST, PUT, PATCH}
    /\ op' \in TerminalOps
    /\ ~req'.nil

\* C5, as claimed: for every JSON object text s, no key included, the body
\* of SendMapString(s) then End on a fresh POST, PUT or PATCH builder is the
\* JSON serialization of the pairs decoded from s.
C5_AnyJsonRoundTrip ==
    [][SendsJsonFromFresh => IsRoundTripOf(req'.Body, arg)]_vars

\* C5, amended: that holds for every JSON object text with at least one key;
\* for the empty object nothing is stored and the body is the raw string,
\* which is empty.
C5_JsonRoundTrip ==
    [][SendsJsonFromFresh =>
          IF arg.pairs # <<>> THEN IsRoundTripOf(req'.Body, arg)
          ELSE req'.Body = StringBody(EmptyString)]_vars

\* {"a":1} went out of a fresh PUT builder as {"a":1}
C5_Witness ==
    /\ op \in TerminalOps
    /\ gr = [New EXCEPT !.Method = PUT, !.Url = UrlPlain,
                        !.Header = HeaderSet(EmptyMap, "Content-Type", "application/json"),
                        !.Data = JsonDecode(JsonNum),
                        !.Client = DefaultClient(1)]
    /\ req.Body = StringBody(JsonNum)

----------------------------------------------------------------------------
(* Writes to a key of the structured data *)

\* the value a form string gives for key k: its first one
FirstValue(text, k) == text.pairs[Min(Occ(text.pairs, k))][2].v[1]

IsFormText(text) == text.fmt = "form" /\ ParseQueryOk(text)

\* C6: a form write to a key held as a string or []string makes the entry a
\* []string of the new value followed by the prior values in their order;
\* two form writes of a key on a fresh builder leave the two values, the
\* newer first.
C6_FormPromotes ==
    [][(op' = "SendMapString" /\ IsFormText(arg')) =>
          /\ \A k \in TextKeys(arg'.pairs) \cap DOMAIN gr.Data :
                gr.Data[k].t \in {"string", "strings"} =>
                    gr'.Data[k] = StrsVal(<<FirstValue(arg', k)>> \o gr.Data[k].v)
          /\ (op = "SendMapString" /\ wasFresh /\ IsFormText(arg)) =>
                \A k \in TextKeys(arg'.pairs) \cap TextKeys(arg.pairs) :
                    gr'.Data[k] = StrsVal(<<FirstValue(arg', k), FirstValue(arg, k)>>)]_vars

\* a=x, a=x and then a=y were written: the entry is ["y", "x", "x"]
C6_Witness ==
    /\ op = "SendMapString"
    /\ arg = FormA2
    /\ "a" \in DOMAIN gr.Data
    /\ gr.Data["a"] = StrsVal(<<"y", "x", "x">>)

Values(x) == {x.v[i] : i \in DOMAIN x.v}

BodySetters == {"SendMapString", "SendStruct"}

WrittenJson(name, a) ==
    IF name = "SendMapString" /\ a.fmt = "json" THEN JsonDecode(a)
    ELSE IF name = "SendStruct" /\ a.marshals /\ a.object THEN JsonDecode(a.json)
    ELSE EmptyMap

WrittenForm(name, a) ==
    IF name = "SendMapString" /\ IsFormText(a) THEN TextKeys(a.pairs) ELSE {}

----------------------------------------------------------------------------
(* Reset *)

\* C8: after Reset every field but the client is as in a new builder: the
\* fields of the request and also basic auth, transport and redirect policy.
C8_ResetRestoresAll ==
    op = "Reset" => gr = [New EXCEPT !.Client = gr.Client]

\* C9: Reset leaves the client reference and the client objects as they
\* were and leaves headers, structured data, raw bodies, query parameters,
\* cookies and errors empty; a terminal call that sends a request from a
\* builder holding a client sends it through that client and creates none.
C9_ResetKeepsClient ==
    [][/\ op' = "Reset" =>
             /\ gr'.Client = gr.Client
             /\ clients' = clients
             /\ gr'.Header = EmptyMap
             /\ gr'.Data = EmptyMap
             /\ gr'.RawStringData = EmptyString
             /\ gr'.RawBytesData = <<>>
             /\ gr'.QueryData = EmptyMap
             /\ gr'.Cookies = <<>>
             /\ gr'.Errors = <<>>
       /\ (op' \in TerminalOps /\ doCalls' = 1 /\ gr.Client # NilClient) =>
             /\ gr'.Client = gr.Client
             /\ DOMAIN clients' = DOMAIN clients
             /\ clients'[gr.Client].Transport = "gr"]_vars

\* Reset has run on a builder whose default client an earlier terminal call
\* created: the builder is empty and still holds that client
C9_Witness ==
    /\ op = "Reset"
    /\ gr.Client = DefaultClient(1)
    /\ clients[gr.Client].Jar
    /\ clients[gr.Client].Transport = "gr"
    /\ gr.Header = EmptyMap
    /\ gr.Method = ""

----------------------------------------------------------------------------
(* The query of the request *)

RECURSIVE BagOfSeq(_)
BagOfSeq(sq) ==
    IF sq = <<>> THEN EmptyBag ELSE SetToBag({Head(sq)}) (+) BagOfSeq(Tail(sq))

\* the key/value pairs of a query string, the malformed segments left out
PairsOf(text) ==
    LET good == SelectSeq(text.pairs, LAMBDA pr : pr[2].t # "bad")
    IN  BagOfSeq([i \in DOMAIN good |-> <<good[i][1], good[i][2].v[1]>>])

\* the key/value pairs held in a url.Values
RECURSIVE PairsIn(_, _)
PairsIn(values, ks) ==
    IF ks = {} THEN EmptyBag
    ELSE LET k == CHOOSE x \in ks : TRUE
         IN  BagOfSeq([i \in DOMAIN values[k] |-> <<k, values[k][i]>>])
             (+) PairsIn(values, ks \ {k})

----------------------------------------------------------------------------
(* The proxy *)

\* the proxy that a parsed URL stands for: none for the empty string
ProxyFor(name) == IF name \in {"unset", ""} THEN "nil" ELSE name

\* C11: the proxy of the builder's transport is the one given by the last
\* Proxy call whose URL parsed, none when that URL was the empty string or
\* no such call was made, and a request that is executed goes out through
\* it; a Proxy call whose URL does not parse appends one error and leaves
\* the transport as it was, one whose URL parses leaves the errors as they
\* were.
C11_LastParsedProxy ==
    [][/\ gr'.Transport.Proxy = ProxyFor(lastProxy')
       /\ doCalls' = 1 => via'.Transport.Proxy = ProxyFor(lastProxy')
       /\ op' = "Proxy" =>
             IF arg'.parses
             THEN gr'.Errors = gr.Errors
             ELSE /\ Len(gr'.Errors) = Len(gr.Errors) + 1
                  /\ SubSeq(gr'.Errors, 1, Len(gr.Errors)) = gr.Errors
                  /\ gr'.Transport = gr.Transport]_vars

\* a request went out with no proxy after Proxy("http://proxy"), Proxy("")
\* and a Proxy call whose URL did not parse
C11_Witness ==
    /\ op \in TerminalOps
    /\ doCalls = 1
    /\ lastProxy = ""
    /\ via.Transport.Proxy = "nil"
    /\ via.Transport.Dial # "nil"

----------------------------------------------------------------------------
(* The content type *)

\* the media type that the table of aliases gives for a type string
MediaType(t) ==
    CASE t = "html" -> "text/html"
      [] t = "text" -> "text/plain"
      [] t = "json" -> "application/json"
      [] t = "xml" -> "application/xml"
      [] t \in {"urlencoded", "form", "form-data"} -> "application/x-www-form-urlencoded"
      [] t = "stream" -> "application/octet-stream"
      [] OTHER -> t

\* C12: ContentType(t) leaves the Content-Type header equal to the media
\* type of the alias t, or to t itself when t is no alias, whatever the
\* header held before, and leaves every other header and every other field
\* of the builder as it was.
C12_ContentTypeTable ==
    [][op' = "ContentType" =>
          /\ DOMAIN gr'.Header = DOMAIN gr.Header \cup {"Content-Type"}
          /\ gr'.Header["Content-Type"] = MediaType(arg')
          /\ \A k \in DOMAIN gr.Header \ {"Content-Type"} : gr'.Header[k] = gr.Header[k]
          /\ [gr' EXCEPT !.Header = gr.Header] = gr
          /\ clients' = clients]_vars

\* ContentType("form-data") has run on a builder that holds an Accept header
\* and structured data, after a request went out with another Content-Type
C12_Witness ==
    /\ op = "ContentType"
    /\ arg = "form-data"
    /\ DOMAIN gr.Header = {"Accept", "Content-Type"}
    /\ gr.Header["Content-Type"] = "application/x-www-form-urlencoded"
    /\ gr.Header["Accept"] = "*/*"
    /\ DOMAIN gr.Data # {}
    /\ gr.Client # NilClient

----------------------------------------------------------------------------
(* The callback and the returned triple *)

\* C13: a terminal call that was given a callback and returns has invoked
\* it exactly once, whether it returned the construction errors, a transport
\* failure or a response.
C13_CallbackAlwaysOnce ==
    (op \in TerminalOps /\ arg[1] /\ ret.kind = "return") => cbCalls = 1

\* C14: when the client gave a response, of whatever status, the terminal
\* call returns it, not nil, with all the bytes of its body and a nil error
\* list; a terminal call that returns errors returns a nil response.
C14_ResponseIsNoError ==
    /\ (op \in TerminalOps /\ doCalls = 1 /\ arg[2].kind = "ok") =>
          /\ ret.kind = "return"
          /\ ~ret.resp.nil
          /\ ret.resp.StatusCode = arg[2].StatusCode
          /\ ~ret.body.nil
          /\ ret.body.bytes = arg[2].Body
          /\ ret.errs = <<>>
    /\ (op \in TerminalOps /\ ret.kind = "return" /\ ret.errs # <<>>) =>
          /\ ret.resp.nil
          /\ ret.body.bytes = <<>>

\* a response of status 500 with an empty body was returned with no error
\* by a builder in debug mode that has a dial timeout
C14_Witness ==
    /\ op \in TerminalOps
    /\ doCalls = 1
    /\ ret.resp.StatusCode = 500
    /\ ~ret.resp.nil
    /\ ret.errs = <<>>
    /\ gr.Debug
    /\ gr.Transport.Dial # "nil"

\* C16: a terminal call invokes the client once when it is entered with an
\* empty error list and not at all otherwise; when the client fails, the
\* call returns a nil response, a nil body and the builder's error list,
\* which is the list at entry with the errors of the failure appended, the
\* transport error last.
C16_OneAttempt ==
    [][op' \in TerminalOps =>
          /\ doCalls' = IF gr.Errors = <<>> THEN 1 ELSE 0
          /\ (doCalls' = 1 /\ Failed(arg'[2])) =>
                /\ ret'.kind = "return"
                /\ ret'.resp.nil
                /\ ret'.body.bytes = <<>>
                /\ ret'.errs = gr'.Errors
                /\ Len(gr'.Errors) > Len(gr.Errors)
                /\ SubSeq(gr'.Errors, 1, Len(gr.Errors)) = gr.Errors
                /\ gr'.Errors[Len(gr'.Errors)] = "transport"]_vars

\* C17: the error list only grows under the setters of a chain and is empty
\* after every terminal call that returns, so that a terminal call made next
\* is not cut short by the errors of the one before.
C17_ExecutionDrains ==
    [][/\ (op' \in TerminalOps /\ ret'.kind = "return") => gr'.Errors = <<>>
       /\ (op \in TerminalOps /\ op' \in TerminalOps /\ ret'.kind = "return") =>
             doCalls' = 1]_vars

----------------------------------------------------------------------------
(* The client that executes *)

\* C18: once RedirectPolicy has been called, a request that is executed is
\* executed by the client the builder holds, created then when it held
\* none, and that client has the policy of the last RedirectPolicy call as
\* its redirect check, wherever SetClient stood among the calls.
C18_PolicyFollowsClient ==
    (op \in TerminalOps /\ doCalls = 1 /\ lastPolicy # "nil") =>
        /\ via.client = gr.Client
        /\ via.client # NilClient
        /\ via.CheckRedirect = lastPolicy
        /\ clients[via.client].CheckRedirect = lastPolicy

\* a request went out through the second client with p1, the policy of the
\* last RedirectPolicy call, while the first client holds p2, the policy of
\* a call made before it, and no default client holds a policy
C18_Witness ==
    /\ op \in TerminalOps
    /\ doCalls = 1
    /\ lastPolicy = "p1"
    /\ via.client = UserClient(2)
    /\ via.CheckRedirect = "p1"
    /\ clients[UserClient(1)].CheckRedirect = "p2"
    /\ \A c \in DOMAIN clients : c[1] = "default" => clients[c].CheckRedirect = "nil"

\* C19: no setter but SetClient changes the client of the builder, nor does
\* a terminal call entered with errors; a terminal call entered without
\* errors by a builder that has no client creates a default client with a
\* cookie jar, keeps it and executes through it, and one entered by a builder
\* that has a client executes through that client and creates none.
C19_LazyDefaultClient ==
    [][/\ op' \notin TerminalOps \cup {"SetClient"} =>
             /\ gr'.Client = gr.Client
             /\ DOMAIN clients' = DOMAIN clients
       /\ (op' \in TerminalOps /\ gr.Errors # <<>>) =>
             /\ gr'.Client = gr.Client
             /\ clients' = clients
       /\ (op' \in TerminalOps /\ gr.Errors = <<>> /\ gr.Client = NilClient) =>
             /\ gr'.Client \notin DOMAIN clients \cup {NilClient}
             /\ DOMAIN clients' = DOMAIN clients \cup {gr'.Client}
             /\ clients'[gr'.Client].Jar
             /\ via'.client = gr'.Client
       /\ (op' \in TerminalOps /\ gr.Errors = <<>> /\ gr.Client # NilClient) =>
             /\ gr'.Client = gr.Client
             /\ DOMAIN clients' = DOMAIN clients
             /\ via'.client = gr.Client]_vars

----------------------------------------------------------------------------
(* Form strings with a repeated key *)

\* C20: Query of a form string adds every pair of the string to the query
\* parameters, and SendMapString of a form string leaves every value that
\* the string gives a key in the structured data under that key, each value
\* of a key repeated in the string included.
C20_EveryPairAdded ==
    [][/\ (op' = "Query" /\ IsFormText(arg')) =>
             PairsIn(gr'.QueryData, DOMAIN gr'.QueryData) =
                 PairsIn(gr.QueryData, DOMAIN gr.QueryData) (+) PairsOf(arg')
       /\ (op' = "SendMapString" /\ IsFormText(arg')) =>
             \A i \in DOMAIN arg'.pairs :
                 /\ arg'.pairs[i][1] \in DOMAIN gr'.Data
                 /\ arg'.pairs[i][2].v[1] \in Values(gr'.Data[arg'.pairs[i][1]])]_vars

----------------------------------------------------------------------------
(* The terminal call in every builder state *)

\* C21: whatever the builder holds, no verb and a malformed URL included, a
\* terminal call returns, and returns either a nil response, a nil body and
\* a non-empty error list, or a response, its body and a nil error list.
C21_AlwaysReturnsTriple ==
    op \in TerminalOps =>
        /\ ret.kind = "return"
        /\ \/ ret.resp.nil /\ ret.body.bytes = <<>> /\ ret.errs # <<>>
           \/ ~ret.resp.nil /\ ret.errs = <<>>

----------------------------------------------------------------------------
(* Debug mode *)

\* what lines 563-565 and 644-658 return from builder g on the given outcome
\* of the transport when the Debug branches of lines 623-630 and 636-642 are
\* not taken
ReturnedWithoutDebug(g, view, outcome) ==
    IF HasErrors(g)
    THEN Return(NilResp, View(view, [nil |-> TRUE, bytes |-> <<>>]), g.Errors)
    ELSE IF ~RequestBuilt(g)
    THEN Panic
    ELSE IF Failed(outcome)
    THEN Return(NilResp, View(view, [nil |-> TRUE, bytes |-> <<>>]),
                Append(IF outcome.kind = "dial"
                       THEN Append(g.Errors, "dial") ELSE g.Errors,
                       "transport"))
    ELSE Return([nil |-> FALSE, StatusCode |-> outcome.StatusCode,
                 Body |-> outcome.Body],
                View(view, [nil |-> FALSE, bytes |-> outcome.Body]),
                <<>>)

\* C22: debug mode changes the log only: whatever the builder holds and
\* whatever the transport does, a failure without a response included, a
\* terminal call made with Debug set ends as the same call ends with Debug
\* unset, with the same response, body and error list.
C22_DebugOnlyLogs ==
    [][(op' \in TerminalOps /\ gr.Debug) =>
           ret' = ReturnedWithoutDebug(gr,
                                       IF op' = "End" THEN "string" ELSE "bytes",
                                       arg'[2])]_vars

----------------------------------------------------------------------------
(* The body of the response *)

\* C23: after a terminal call that succeeded, reading the Body of the
\* returned response gives the body bytes that the call returned, also when
\* a callback was supplied and has read the Body of its copy of the response.
C23_BodyReadableByCaller ==
    readBack["returned"].done => readBack["returned"].bytes = ret.body.bytes

----------------------------------------------------------------------------
(* The Content-Type defaults *)

SentType == HeaderGet(req.Header, "Content-Type")

\* C24 as first stated: whatever calls were made, a terminal call sends the
\* value of the last ContentType or SetHeader call that set a Content-Type
\* other than the empty one, and with no such call the default of the first
\* of SendMapString (form path), SendRawBytes and the terminal call.
C24_TypeOfWholeChain ==
    (op \in TerminalOps /\ ~req.nil) => SentType = typeHist.ever

\* C24, amended: SendMapString, SendRawBytes and the terminal call write
\* their default only into an empty Content-Type and leave any other as it
\* is; and the header map's Content-Type, which a terminal call sends, is
\* settled by the calls made since it was last empty (at New, at Reset, or
\* at a ContentType or SetHeader call that stored the empty string): it is
\* the value of the last ContentType or SetHeader call among them, and with
\* none among them the default of the first of the three among them.
C24_DefaultsFillEmptyOnly ==
    [][LET before == HeaderGet(gr.Header, "Content-Type")
           after == HeaderGet(gr'.Header, "Content-Type")
       IN  /\ (op' \in {"SendMapString", "SendRawBytes"} \cup TerminalOps) =>
                  /\ before # "" => after = before
                  /\ before = "" => after \in {"", DefaultGiven(op', arg')}
           /\ after = typeHist'.since
           /\ ~req'.nil => HeaderGet(req'.Header, "Content-Type") = after]_vars

\* a terminal call has sent the default that SendRawBytes wrote after the
\* Content-Type was emptied, and not the form type that stood before
C24_Witness ==
    /\ op \in TerminalOps
    /\ ~req.nil
    /\ typeHist.ever = "application/x-www-form-urlencoded"
    /\ SentType = "application/octet-stream"
    /\ SentType = typeHist.since

----------------------------------------------------------------------------
(* What a terminal call leaves on the builder *)

\* the request intent of builder g
Intent(g) ==
    <<g.Method, g.Url, g.Data, g.RawStringData, g.RawBytesData, g.QueryData,
      g.Cookies, g.BasicAuth, g.CheckRedirect, g.Transport>>

\* C25: a terminal call leaves method, URL, structured data, raw string, raw
\* bytes, query parameters, cookies, basic auth, redirect policy and
\* transport of the builder as they are, and a terminal call that follows
\* another with no setter in between builds the request that the first built.
C25_TerminalKeepsIntent ==
    [][op' \in TerminalOps =>
           /\ Intent(gr') = Intent(gr)
           /\ op \in TerminalOps => req' = req]_vars

----------------------------------------------------------------------------
(* The verb setters *)

VerbMethod ==
    [Get |-> GET, Post |-> POST, Head |-> HEAD, Put |-> PUT, Delete |-> DELETE,
     Patch |-> PATCH]

\* C26: a verb setter sets the method to its own and the URL to its
\* argument, so a second verb setter of a chain replaces those of the first;
\* it empties the error list whatever the list held; and it leaves every
\* other field of the builder, and the clients, as they were.
C26_VerbSetsMethodAndUrl ==
    [][op' \in DOMAIN VerbMethod =>
           /\ gr' = [gr EXCEPT !.Method = VerbMethod[op'], !.Url = arg',
                               !.Errors = <<>>]
           /\ clients' = clients]_vars

\* Post was called last, in a chain in which a setter had appended an error
\* and the other setters had filled the builder: the error list is empty,
\* method and URL are those of the call, and the other fields are still set
C26_Witness ==
    /\ op = "Post"
    /\ appended
    /\ gr.Errors = <<>>
    /\ gr.Method = POST
    /\ gr.Url = UrlQuery
    /\ HeaderGet(gr.Header, "Content-Type") = "application/octet-stream"
    /\ DOMAIN gr.Data # {}
    /\ gr.RawBytesData = <<104>>
    /\ DOMAIN gr.QueryData # {}
    /\ gr.Cookies # <<>>
    /\ gr.BasicAuth # NoAuth
    /\ gr.Client = UserClient(1)
    /\ gr.Transport # NewTransport
    /\ gr.CheckRedirect # "nil"

----------------------------------------------------------------------------
(* A client shared by builders *)

\* worker b has executed its request through the client that the two
\* builders hold
SharedRun(b) ==
    /\ workers[b].via.client # NilClient
    /\ \A w \in Builders : workers[w].g.Client = workers[b].via.client

\* C15: when two builders share one client and run their terminal calls
\* side by side, the request of each has gone out through the transport
\* settings (proxy, dial timeout, TLS) of its own builder.
C15_OwnTransport ==
    \A b \in Builders :
        SharedRun(b) => workers[b].via.Transport = workers[b].g.Transport

====
